---- MODULE Spec2Model ----
(***************************************************************************)
(* Model of the recruiter outreach dispatcher:                            *)
(*   src/src/utils/ratelimiter.py   RateLimiter.__init__, RateLimiter.wait *)
(*   src/src/outreach/__init__.py   OutreachManager.send_outreach_email,   *)
(*                                  OutreachManager.send_emails_concurrently*)
(*   src/src/main.py                main                                   *)
(*                                                                         *)
(* A run starts with main building the OutreachManager, whose constructor  *)
(* checks the credentials, the resume file and the template, and goes on   *)
(* to the batch the loader returned.                                       *)
(*                                                                         *)
(* Time is a discrete clock.  time.time() reads it, time.sleep(d) returns  *)
(* once the clock has advanced by at least d.  Every worker thread of the  *)
(* ThreadPoolExecutor runs send_outreach_email; RateLimiter.wait takes no  *)
(* lock, so its reads and writes of self.timestamps are separate steps     *)
(* that interleave with the steps of the other threads.                    *)
(* ratelimiter.py uses the module name `logging` without importing it: as   *)
(* shipped the constructor raises NameError and main ends before loading.  *)
(* The runs that go further are those of a process in which that name is   *)
(* bound (startup = "ok").                                                 *)
(***************************************************************************)
EXTENDS Integers, Sequences, FiniteSets, TLC

(* ---------------- bounds of the model ---------------- *)
MaxBatch == 2
MaxTime == 3

(* ---------------- program constants ---------------- *)
SuccessDelay == 3
BackoffBase == 2

(* ---------------- strings: sequences of one-character strings ---------- *)
(* A character TLA+ strings cannot hold is written as its code point.
   The characters str.isspace() accepts, which str.strip() and str.split()
   take for whitespace *)
Whitespace ==
  { " ", "\t", "\n", "\r", "\f", "U+000B", "U+001C", "U+001D", "U+001E", "U+001F",
    "U+0085", "U+00A0", "U+1680", "U+2000", "U+2001", "U+2002", "U+2003",
    "U+2004", "U+2005", "U+2006", "U+2007", "U+2008", "U+2009", "U+200A",
    "U+2028", "U+2029", "U+202F", "U+205F", "U+3000" }
Letter == {"a","b","c","d","e","f","g","h","i","j","k","l","m","n","o","p","q",
           "r","s","t","u","v","w","x","y","z","A","B","C","D","E","F","G","H",
           "I","J","K","L","M","N","O","P","Q","R","S","T","U","V","W","X","Y","Z"}
Digit == {"0","1","2","3","4","5","6","7","8","9"}
LocalChar == Letter \cup Digit \cup {".", "_", "%", "+", "-"}
DomainChar == Letter \cup Digit \cup {".", "-"}

(* a pandas missing cell: a float NaN, not a string *)
NaN == << "float:nan" >>

(* str(v) *)
Str(v) == IF v = NaN THEN << "n", "a", "n" >> ELSE v

RECURSIVE LStrip(_)
LStrip(s) == IF s /= << >> /\ Head(s) \in Whitespace THEN LStrip(Tail(s)) ELSE s

RECURSIVE RStrip(_)
RStrip(s) ==
  IF s /= << >> /\ s[Len(s)] \in Whitespace
    THEN RStrip(SubSeq(s, 1, Len(s) - 1)) ELSE s

(* s.strip() *)
Strip(s) == RStrip(LStrip(s))

(* the leading run of non-whitespace characters of s *)
RECURSIVE TakeToken(_)
TakeToken(s) ==
  IF s = << >> \/ Head(s) \in Whitespace THEN << >>
  ELSE << Head(s) >> \o TakeToken(Tail(s))

(* s.split(): the whitespace-delimited tokens of s, none of them empty *)
RECURSIVE Split(_)
Split(s) ==
  LET t == LStrip(s) IN
    IF t = << >> THEN << >>
    ELSE LET tok == TakeToken(t) IN
           << tok >> \o Split(SubSeq(t, Len(tok) + 1, Len(t)))

AllIn(s, lo, hi, class) == \A i \in lo..hi : s[i] \in class

(* self.email_regex.search(text) is not None, for the pattern              *)
(* ([a-zA-Z0-9._%+-]+@[a-zA-Z0-9.-]+\.[a-zA-Z]{2,})                         *)
EmailRegexSearch(text) ==
  \E p \in 1..Len(text) : \E q \in (p + 1)..Len(text) : \E r \in (q + 2)..Len(text) :
     /\ AllIn(text, p, q - 1, LocalChar)
     /\ text[q] = "@"
     /\ AllIn(text, q + 1, r - 1, DomainChar)
     /\ text[r] = "."
     /\ r + 2 <= Len(text)
     /\ AllIn(text, r + 1, r + 2, Letter)

(* OutreachManager._find_email(text) is truthy *)
FindEmailAlwaysMatches(text) == TRUE
FindEmail(text) == EmailRegexSearch(text)

RECURSIVE Pow(_, _)
Pow(b, n) == IF n = 0 THEN 1 ELSE b * Pow(b, n - 1)

Max(a, b) == IF a >= b THEN a ELSE b

(* ---------------- inputs ---------------- *)
Jane == << "J", "a", "n", "e" >>
JaneDoe == << "J", "a", "n", "e", " ", "D", "o", "e" >>
Acme == << " ", "A", "c", "m", "e", " " >>
GoodEmail == << "j", "@", "a", ".", "c", "o" >>
PaddedEmail == << " ", "j", "@", "a", ".", "c", "o", "\r" >>
BadEmail == << "n", "o", "t", "-", "a", "n", "-", "e", "m", "a", "i", "l" >>
Blank == << >>
Spaces == << " ", "U+00A0" >>
DefaultName == << "H", "R" >>
DefaultCompany == << "y", "o", "u", "r", " ", "c", "o", "m", "p", "a", "n", "y" >>

(* main.py:62: the columns a frame must have *)
RequiredColumns == { "Name", "Company", "Email" }

(* the recipient records a batch is drawn from: rows of a frame that has the
   required columns (after main's renaming), an empty cell being NaN *)
Records ==
  { [Name |-> JaneDoe, Company |-> Acme,   Email |-> GoodEmail],
    [Name |-> NaN,     Company |-> Spaces, Email |-> PaddedEmail],
    [Name |-> Blank,   Company |-> Blank,  Email |-> BadEmail],
    [Name |-> NaN,     Company |-> NaN,    Email |-> BadEmail],
    [Name |-> Spaces,  Company |-> Acme,   Email |-> GoodEmail],
    [Name |-> Jane,    Company |-> Acme,   Email |-> NaN] }

(* frames that lack a required column *)
MissingColumnBatches ==
  { << [Name |-> Jane, Company |-> Acme] >>,
    << [Company |-> Spaces, Email |-> PaddedEmail] >> }

RECURSIVE SeqsUpTo(_, _)
SeqsUpTo(set, n) ==
  IF n = 0 THEN { << >> }
  ELSE LET shorter == SeqsUpTo(set, n - 1) IN
         shorter \cup { Append(b, r) : b \in { x \in shorter : Len(x) = n - 1 }, r \in set }

PlainRecord == [Name |-> JaneDoe, Company |-> Acme, Email |-> GoodEmail]

(* every batch of at most MaxBatch records, and the frames without a
   required column *)
Batches == SeqsUpTo(Records, MaxBatch) \cup MissingColumnBatches

(* batches of well-formed records alone, enough for two tasks to overlap *)
PlainBatches == { << >>, << PlainRecord >>, << PlainRecord, PlainRecord >> }

(* configuration values: the arguments int(config.get(...)) hands on *)
CallsPerPeriodArgs == { 0, 1, 2 }
PeriodArgs == { -1, 2 }
MaxThreadsChoices == { 0, 1, 2 }
MaxRetriesChoices == { 0, 1, 3 }
Templates == { "ok", "KeyError", "ValueError" }

(* The runs explored: every batch under the reference configuration, and
   the batches of well-formed records under every configuration. *)
ReferenceRun(cpp_arg, period_arg, threads, retries, tpl, batch) ==
  /\ cpp_arg = 1 /\ period_arg = 2 /\ threads = 1 /\ retries = 1 /\ tpl = "ok"
  /\ batch \in Batches

ConfiguredRun(cpp_arg, period_arg, threads, retries, tpl, batch) ==
  /\ cpp_arg \in CallsPerPeriodArgs /\ period_arg \in PeriodArgs
  /\ threads \in MaxThreadsChoices /\ retries \in MaxRetriesChoices
  /\ tpl \in Templates
  /\ batch \in PlainBatches

(* ---------------- state ---------------- *)
VARIABLES
  clock,             \* time.time()
  calls_per_period,  \* RateLimiter.calls_per_period
  period,            \* RateLimiter.period
  timestamps,        \* RateLimiter.timestamps
  max_threads,       \* OutreachManager.max_threads
  max_retries,       \* OutreachManager.max_retries
  template,          \* OutreachManager.template, by what format(**template_vars) does
  recruiters,        \* the argument of send_emails_concurrently
  mainpc,            \* position of the thread running send_emails_concurrently
  idx,               \* records of the batch already taken by the for loop
  skipped,           \* per record taken: how the loop body left ("submit" when a task was submitted)
  futures,           \* the futures list: one entry per submitted task, with the task's frame
  collected,         \* futures as_completed has yielded
  grants,            \* every value RateLimiter.wait has appended, in order
  startup,           \* what OutreachManager.__init__ finds in the environment
  limiter_args       \* the arguments main's configuration passes to RateLimiter

vars == << clock, calls_per_period, period, timestamps, max_threads, max_retries,
           template, recruiters, mainpc, idx, skipped, futures, collected, grants,
           startup, limiter_args >>

config == << calls_per_period, period, max_threads, max_retries, template, recruiters,
             startup, limiter_args >>

(* RateLimiter.__init__ *)
ClampNone(x) == x
Clamp(x) == Max(1, x)

(* outreach/__init__.py:34-51: how the constructor ends.  Its checks find
   the credentials, the resume file or the template missing; or they pass
   and RateLimiter.__init__ reaches logging.getLogger: ratelimiter.py never
   imports logging, so as shipped the name is unbound and the line raises
   NameError ("logging_unbound"); "ok" is a run in which the name is bound
   in the module's namespace, the only runs in which a limiter exists *)
StartupConditions ==
  { "ok", "no_credentials", "no_resume", "no_template", "logging_unbound" }

(* the process as main starts it: the environment, the configuration and the
   input file are given; the fields are those OutreachManager.__init__ and
   RateLimiter.__init__ set when the constructor's checks pass *)
Init ==
  /\ clock = 0
  /\ timestamps = << >>
  /\ startup \in StartupConditions
  /\ \E cpp_arg \in CallsPerPeriodArgs, period_arg \in PeriodArgs :
       /\ limiter_args = << cpp_arg, period_arg >>
       /\ calls_per_period = Clamp(cpp_arg)
       /\ period = Clamp(period_arg)
       /\ max_threads \in MaxThreadsChoices
       /\ max_retries \in MaxRetriesChoices
       /\ template \in Templates
       /\ recruiters \in Batches
       /\ \/ ReferenceRun(cpp_arg, period_arg, max_threads, max_retries, template, recruiters)
          \/ ConfiguredRun(cpp_arg, period_arg, max_threads, max_retries, template, recruiters)
  /\ mainpc = "construct"
  /\ idx = 0
  /\ skipped = << >>
  /\ futures = << >>
  /\ collected = { }
  /\ grants = << >>

(* main.py:26-32: OutreachManager(config, logger) raises ValueError when the
   credentials, the resume file or the template is missing; main catches it,
   logs and calls sys.exit(1).  The NameError of RateLimiter.__init__ is not
   caught and ends the process *)
Construct ==
  /\ mainpc = "construct"
  /\ mainpc' = IF startup = "ok" THEN "main"
               ELSE IF startup = "logging_unbound" THEN "NameError"
               ELSE "exit_1"
  /\ UNCHANGED << clock, config, timestamps, idx, skipped, futures, collected, grants >>

(* ---------------- the record loop of send_emails_concurrently ---------- *)
Get(rec, key, default) == IF key \in DOMAIN rec THEN rec[key] ELSE default

OrDefault(s, default) == IF s = << >> THEN default ELSE s

(* lines 238-262: what one iteration of the for loop does with a record *)
Prepare(rec) ==
  IF "Email" \notin DOMAIN rec THEN [kind |-> "KeyError"]
  ELSE LET hr_email == Strip(Str(rec["Email"]))
           tokens == Split(Str(Get(rec, "Name", DefaultName)))
           company_name == Strip(Str(Get(rec, "Company", DefaultCompany)))
       IN IF tokens = << >> THEN [kind |-> "IndexError"]
          ELSE IF ~FindEmail(hr_email) THEN [kind |-> "invalid_email"]
          ELSE [kind |-> "submit",
                hr_email |-> hr_email,
                hr_name |-> OrDefault(tokens[1], DefaultName),
                company_name |-> OrDefault(company_name, DefaultCompany)]

(* the frame of a task that executor.submit has queued *)
NewTask(i, prep) ==
  [rec |-> i, hr_email |-> prep.hr_email, hr_name |-> prep.hr_name,
   company_name |-> prep.company_name,
   pc |-> "queued", now |-> 0, tmp |-> << >>, wake |-> 0, attempt |-> 0,
   acquires |-> 0, sends |-> << >>, sleeps |-> << >>, outcome |-> "none"]

Task(f) == futures[f]

SetTask(f, t) == futures' = [futures EXCEPT ![f] = t]

Running(f) == Task(f).pc \notin { "queued", "done" }

RunningTasks == { f \in 1..Len(futures) : Running(f) }

(* ThreadPoolExecutor(max_workers=self.max_threads): a queued work item is
   taken when fewer than max_workers worker threads are busy *)
PoolAlwaysHasWorker == TRUE
PoolHasIdleWorker == Cardinality(RunningTasks) < max_threads

(* main.py:37-50: how the loader ends when the input holds no record: the
   frame is None or empty (a PDF without table rows, a CSV with only its
   header row), or pd.read_csv raises EmptyDataError on a file without
   columns *)
EmptyLoads == { "empty_frame", "EmptyDataError" }

(* main.py:62-64: a frame without one of the required columns is logged and
   ends in sys.exit(1) *)
MissingColumns(batch) ==
  \E i \in 1..Len(batch) : ~(RequiredColumns \subseteq DOMAIN batch[i])

(* main: the batch is handed to send_emails_concurrently unless it is empty
   or lacks a column; an empty frame is logged ("No recruiter data loaded. Exiting.") and main
   falls off its end, EmptyDataError is logged and ends in sys.exit(1);
   the with statement builds the pool, which raises ValueError for
   max_workers <= 0 *)
EnterPool ==
  /\ mainpc = "main"
  /\ \E load \in EmptyLoads :
       mainpc' = IF recruiters = << >>
                   THEN (IF load = "empty_frame" THEN "no_data" ELSE "exit_1")
                 ELSE IF MissingColumns(recruiters) THEN "exit_1"
                 ELSE IF max_threads <= 0 THEN "ValueError"
                 ELSE "loop"
  /\ UNCHANGED << clock, config, timestamps, idx, skipped, futures, collected, grants >>

(* Prepare, tabulated over the records of the model *)
Prepared == [rec \in Records |-> Prepare(rec)]

(* one iteration of `for recruiter in recruiters` *)
LoopStep ==
  /\ mainpc = "loop"
  /\ idx < Len(recruiters)
  /\ LET prep == Prepared[recruiters[idx + 1]] IN
       /\ skipped' = Append(skipped, prep.kind)
       /\ futures' = IF prep.kind = "submit"
                       THEN Append(futures, NewTask(idx + 1, prep))
                       ELSE futures
  /\ idx' = idx + 1
  /\ UNCHANGED << clock, config, timestamps, mainpc, collected, grants >>

LoopEnd ==
  /\ mainpc = "loop"
  /\ idx = Len(recruiters)
  /\ mainpc' = "as_completed"
  /\ UNCHANGED << clock, config, timestamps, idx, skipped, futures, collected, grants >>

(* as_completed yields a finished future; future.result() re-raises inside
   try/except Exception *)
Collect(f) ==
  /\ mainpc = "as_completed"
  /\ f \notin collected
  /\ Task(f).pc = "done"
  /\ collected' = collected \cup { f }
  /\ UNCHANGED << clock, config, timestamps, mainpc, idx, skipped, futures, grants >>

(* the for loop over as_completed(futures) ends once every future was yielded *)
AsCompletedFirstOnly == collected /= { } \/ futures = << >>
AsCompletedEveryRecord == Cardinality(collected) = Len(recruiters)
AsCompletedExhausted == collected = 1..Len(futures)

(* the with block's exit: executor.shutdown(wait=True) *)
PoolJoined == \A f \in 1..Len(futures) : Task(f).pc = "done"

Return ==
  /\ mainpc = "as_completed"
  /\ AsCompletedExhausted
  /\ PoolJoined
  /\ mainpc' = "returned"
  /\ UNCHANGED << clock, config, timestamps, idx, skipped, futures, collected, grants >>

(* ---------------- a worker runs send_outreach_email ---------------- *)
TaskFrame == << clock, config, mainpc, idx, skipped, collected >>

(* a worker thread takes the oldest queued work item *)
Start(f) ==
  /\ Task(f).pc = "queued"
  /\ \A g \in 1..(f - 1) : Task(g).pc /= "queued"
  /\ PoolHasIdleWorker
  /\ SetTask(f, [Task(f) EXCEPT !.pc = "w_now"])
  /\ UNCHANGED << TaskFrame, timestamps, grants >>

(* ratelimiter.py:19  now = time.time() *)
WaitNow(f) ==
  /\ Task(f).pc = "w_now"
  /\ SetTask(f, [Task(f) EXCEPT !.pc = "w_filter", !.now = clock])
  /\ UNCHANGED << TaskFrame, timestamps, grants >>

(* ratelimiter.py:21, right-hand side *)
Prune(ts, now, per) == SelectSeq(ts, LAMBDA t : t > now - per)

WaitFilter(f) ==
  /\ Task(f).pc = "w_filter"
  /\ SetTask(f, [Task(f) EXCEPT !.pc = "w_store",
                                !.tmp = Prune(timestamps, Task(f).now, period)])
  /\ UNCHANGED << TaskFrame, timestamps, grants >>

(* ratelimiter.py:21, the assignment to self.timestamps *)
WaitStore(f) ==
  /\ Task(f).pc = "w_store"
  /\ timestamps' = Task(f).tmp
  /\ SetTask(f, [Task(f) EXCEPT !.pc = "w_len", !.tmp = << >>])
  /\ UNCHANGED << TaskFrame, grants >>

(* ratelimiter.py:23 *)
WindowFull(ts, cpp) == Len(ts) >= cpp

WaitLen(f) ==
  /\ Task(f).pc = "w_len"
  /\ SetTask(f, [Task(f) EXCEPT
                   !.pc = IF WindowFull(timestamps, calls_per_period)
                            THEN "w_first" ELSE "w_append"])
  /\ UNCHANGED << TaskFrame, timestamps, grants >>

(* ratelimiter.py:25-27 *)
SleepTime(ts, now, per) == per - (now - ts[1])

(* ratelimiter.py:25-31: self.timestamps[0] raises IndexError on an empty
   list; time.sleep(sleep_time) is entered when sleep_time > 0 *)
WaitFirst(f) ==
  /\ Task(f).pc = "w_first"
  /\ IF timestamps = << >>
       THEN SetTask(f, [Task(f) EXCEPT !.pc = "done", !.outcome = "IndexError",
                                       !.now = 0])
       ELSE LET sleep_time == SleepTime(timestamps, Task(f).now, period) IN
              IF sleep_time > 0
                THEN SetTask(f, [Task(f) EXCEPT !.pc = "w_sleep",
                                                !.wake = clock + sleep_time])
                ELSE SetTask(f, [Task(f) EXCEPT !.pc = "w_now2"])
  /\ UNCHANGED << TaskFrame, timestamps, grants >>

(* time.sleep returns *)
WaitWake(f) ==
  /\ Task(f).pc = "w_sleep"
  /\ clock >= Task(f).wake
  /\ SetTask(f, [Task(f) EXCEPT !.pc = "w_now2", !.wake = 0])
  /\ UNCHANGED << TaskFrame, timestamps, grants >>

(* ratelimiter.py:34  now = time.time() *)
WaitNow2(f) ==
  /\ Task(f).pc = "w_now2"
  /\ SetTask(f, [Task(f) EXCEPT !.pc = "w_append", !.now = clock])
  /\ UNCHANGED << TaskFrame, timestamps, grants >>

(* ratelimiter.py:36  self.timestamps.append(now); wait returns *)
WaitAppend(f) ==
  /\ Task(f).pc = "w_append"
  /\ timestamps' = Append(timestamps, Task(f).now)
  /\ grants' = Append(grants, Task(f).now)
  /\ SetTask(f, [Task(f) EXCEPT !.pc = "compose", !.now = 0,
                                !.acquires = @ + 1])
  /\ UNCHANGED TaskFrame

(* open(self.resume_path, "rb") at send time *)
AttachmentReads == { "ok", "FileNotFoundError", "Exception" }

(* outreach/__init__.py:160-196: where a task goes once the body is
   formatted with `tpl` and the attachment read ended `att` *)
AfterComposeNoShortCircuit(tpl, att, retries) ==
  IF retries <= 0 THEN [pc |-> "done", outcome |-> "exhausted"]
  ELSE [pc |-> "send", outcome |-> "none"]
AfterCompose(tpl, att, retries) ==
  IF tpl = "KeyError" THEN [pc |-> "done", outcome |-> "template_error"]
  ELSE IF tpl = "ValueError" THEN [pc |-> "done", outcome |-> "ValueError"]
  ELSE IF att /= "ok" THEN [pc |-> "done", outcome |-> "attach_error"]
  ELSE IF retries <= 0 THEN [pc |-> "done", outcome |-> "exhausted"]
  ELSE [pc |-> "send", outcome |-> "none"]

Compose(f) ==
  /\ Task(f).pc = "compose"
  /\ \E att \in AttachmentReads :
       LET to == AfterCompose(template, att, max_retries) IN
         SetTask(f, [Task(f) EXCEPT !.pc = to.pc, !.outcome = to.outcome])
  /\ UNCHANGED << TaskFrame, timestamps, grants >>

(* outreach/__init__.py:222-225 *)
RetryRemainsOffByOne(attempt, retries) == attempt < retries
RetryRemains(attempt, retries) == attempt < retries - 1

BackoffDelay(attempt) == Pow(BackoffBase, attempt)

(* outreach/__init__.py:196-227: one pass of the retry loop body; the SMTP
   exchange either completes or raises, and every exception is caught *)
Send(f) ==
  /\ Task(f).pc = "send"
  /\ \E ok \in BOOLEAN :
       LET t == [Task(f) EXCEPT !.sends = Append(@, clock)] IN
         IF ok
           THEN SetTask(f, [t EXCEPT !.pc = "linger", !.outcome = "sent",
                                     !.wake = clock + SuccessDelay])
         ELSE IF RetryRemains(t.attempt, max_retries)
           THEN SetTask(f, [t EXCEPT !.pc = "backoff",
                                     !.sleeps = Append(@, BackoffDelay(t.attempt)),
                                     !.wake = clock + BackoffDelay(t.attempt)])
         ELSE SetTask(f, [t EXCEPT !.pc = "done", !.outcome = "exhausted"])
  /\ UNCHANGED << TaskFrame, timestamps, grants >>

(* the backoff sleep returns; the for loop takes the next attempt *)
BackoffWake(f) ==
  /\ Task(f).pc = "backoff"
  /\ clock >= Task(f).wake
  /\ SetTask(f, [Task(f) EXCEPT !.pc = "send", !.wake = 0, !.attempt = @ + 1])
  /\ UNCHANGED << TaskFrame, timestamps, grants >>

(* outreach/__init__.py:207: the return that follows a successful send and
   its time.sleep(3) *)
AfterSuccessNextAttempt(attempt, retries) ==
  IF attempt + 1 < retries THEN [pc |-> "send", attempt |-> attempt + 1]
  ELSE [pc |-> "done", attempt |-> attempt]
AfterSuccess(attempt, retries) == [pc |-> "done", attempt |-> attempt]

(* time.sleep(3) after a successful send returns; the task returns *)
LingerWake(f) ==
  /\ Task(f).pc = "linger"
  /\ clock >= Task(f).wake
  /\ LET to == AfterSuccess(Task(f).attempt, max_retries) IN
       SetTask(f, [Task(f) EXCEPT !.pc = to.pc, !.attempt = to.attempt, !.wake = 0])
  /\ UNCHANGED << TaskFrame, timestamps, grants >>

(* the clock advances *)
Tick ==
  /\ clock < MaxTime
  /\ clock' = clock + 1
  /\ UNCHANGED << config, timestamps, mainpc, idx, skipped, futures, collected, grants >>

(* the exit status of the process once main has ended: sys.exit(1), an
   uncaught exception (status 1), or main returning (status 0); -1 while the
   process runs *)
ExitStatus ==
  IF mainpc \in { "exit_1", "ValueError", "NameError" } THEN 1
  ELSE IF mainpc \in { "no_data", "returned" } THEN 0
  ELSE -1

Next ==
  \/ Construct
  \/ EnterPool
  \/ LoopStep
  \/ LoopEnd
  \/ Return
  \/ Tick
  \/ \E f \in 1..Len(futures) :
       \/ Collect(f)
       \/ Start(f)
       \/ WaitNow(f)
       \/ WaitFilter(f)
       \/ WaitStore(f)
       \/ WaitLen(f)
       \/ WaitFirst(f)
       \/ WaitWake(f)
       \/ WaitNow2(f)
       \/ WaitAppend(f)
       \/ Compose(f)
       \/ Send(f)
       \/ BackoffWake(f)
       \/ LingerWake(f)

Spec == Init /\ [][Next]_vars

(* ======================= properties ======================= *)
Futures == 1..Len(futures)

(* the send attempts of all tasks, as (task, attempt number) pairs *)
AllSends == UNION { { << f, k >> : k \in 1..Len(Task(f).sends) } : f \in Futures }

SendAt(fk) == Task(fk[1]).sends[fk[2]]

(* the record's Email is present and passes the address pattern *)
ValidEmail(rec) ==
  /\ "Email" \in DOMAIN rec
  /\ EmailRegexSearch(Strip(Str(rec["Email"])))

InvalidEmail(rec) ==
  /\ "Email" \in DOMAIN rec
  /\ ~EmailRegexSearch(Strip(Str(rec["Email"])))

(* the same, tabulated over the records of the model *)
ValidEmailRecords == { rec \in Records : ValidEmail(rec) }

InvalidEmailRecords == { rec \in Records : InvalidEmail(rec) }

(* the records the loop body submits a task for *)
AcceptedRecords == { rec \in Records : Prepare(rec).kind = "submit" }

TasksOf(i) == { f \in Futures : Task(f).rec = i }

(* C1: no window of length period holds more than calls_per_period granted
   timestamps: for every grant, the grants whose timestamp lies in the
   window of length period ending at it number at most calls_per_period. *)
C1_SlidingWindow ==
  \A i \in 1..Len(grants) :
    Cardinality({ j \in 1..Len(grants) :
                    grants[j] > grants[i] - period /\ grants[j] <= grants[i] })
      <= calls_per_period

(* C2: every transport attempt of a task, the first and each retry, has its
   own acquire before it: a task never has more attempts than acquires. *)
C2_AcquirePerAttempt ==
  \A f \in Futures : Len(Task(f).sends) <= Task(f).acquires

(* C3: counting retries and all tasks, the transport attempts started in any
   window of length period number at most calls_per_period. *)
C3_GlobalSendRate ==
  \A a \in AllSends :
    Cardinality({ b \in AllSends :
                    SendAt(b) > SendAt(a) - period /\ SendAt(b) <= SendAt(a) })
      <= calls_per_period

(* C4: a task whose every transport attempt failed, with max_retries = m >= 1,
   has made exactly m attempts when it ends, slept 2^(k-1) before retry k
   for k = 1..m-1 and not after the last attempt, retry k starting at least
   2^(k-1) after the attempt before it, and ends in the one outcome
   "exhausted"; while it runs it has slept once per failed attempt but the
   last. *)
C4_RetryExhaustion ==
  \A f \in Futures :
    LET t == Task(f) IN
      (t.outcome \in { "none", "exhausted" } /\ max_retries >= 1) =>
        /\ Len(t.sends) <= max_retries
        /\ \A k \in 1..Len(t.sleeps) : t.sleeps[k] = Pow(2, k - 1)
        /\ \A k \in 1..(Len(t.sends) - 1) : t.sends[k + 1] - t.sends[k] >= Pow(2, k - 1)
        /\ t.pc = "backoff" => Len(t.sleeps) = Len(t.sends)
        /\ t.pc = "send" => Len(t.sleeps) = Len(t.sends) /\ t.attempt = Len(t.sends)
        /\ t.outcome = "exhausted" =>
             /\ t.pc = "done"
             /\ Len(t.sends) = max_retries
             /\ Len(t.sleeps) = max_retries - 1
        /\ (t.pc = "done" /\ Len(t.sends) >= 1) => t.outcome = "exhausted"

C4_Witness ==
  \E f \in Futures :
    /\ max_retries = 3
    /\ Task(f).outcome = "exhausted"
    /\ Len(Task(f).sends) = 3
    /\ Task(f).sleeps = << 1, 2 >>

(* C5: a record whose email fails the address pattern is never submitted: it
   has no task, hence no worker slot, no acquire and no transport attempt;
   the loop goes on to the records after it, and each record the loop
   accepts has its task. *)
C5_InvalidEmailNeverSent ==
  /\ \A i \in 1..idx :
       recruiters[i] \in InvalidEmailRecords =>
         TasksOf(i) = { } /\ skipped[i] /= "submit"
  /\ Len(futures) = Cardinality({ i \in 1..idx : skipped[i] = "submit" })
  /\ \A i \in 1..idx :
       recruiters[i] \in AcceptedRecords => TasksOf(i) /= { }
  /\ mainpc \in { "as_completed", "returned" } => idx = Len(recruiters)

C5_Witness ==
  /\ idx = 2
  /\ recruiters[1] \in InvalidEmailRecords
  /\ skipped[1] = "invalid_email"
  /\ Len(grants) = 1
  /\ \E f \in TasksOf(2) : Len(Task(f).sends) = 1

(* C6: when the run ends every input recipient has exactly one recorded
   outcome.  The outcomes send_emails_concurrently holds are its futures. *)
C6_OneOutcomePerRecipient ==
  mainpc = "returned" =>
    \A i \in 1..Len(recruiters) : Cardinality(TasksOf(i)) = 1

(* C7: when send_emails_concurrently returns, every record has been taken by
   the loop, every record the loop accepted has its task, and every
   submitted task is finished and was collected, whatever the tasks'
   outcomes. *)
C7_JoinAll ==
  mainpc = "returned" =>
    /\ idx = Len(recruiters)
    /\ \A i \in 1..Len(recruiters) :
         recruiters[i] \in AcceptedRecords => Cardinality(TasksOf(i)) = 1
    /\ \A f \in Futures : Task(f).pc = "done" /\ Task(f).outcome /= "none"
    /\ collected = Futures

C7_Witness ==
  /\ mainpc = "returned"
  /\ \E f, g \in Futures :
       /\ Task(f).outcome \in { "exhausted", "attach_error" }
       /\ Task(g).outcome = "sent"
       /\ f < g

(* the name and company the claim asks a task to carry *)
ClaimedName(rec) ==
  LET tokens == Split(Str(Get(rec, "Name", << >>))) IN
    IF tokens = << >> THEN DefaultName ELSE tokens[1]

ClaimedCompany(rec) ==
  OrDefault(Strip(Str(Get(rec, "Company", << >>))), DefaultCompany)

(* C8: every record with a valid email is submitted, with the first token of
   its name, or "HR" for a blank name, and its trimmed company, or
   "your company" for a blank one. *)
C8_NormalisationKeepsRecord ==
  \A i \in 1..idx :
    recruiters[i] \in ValidEmailRecords =>
      \E f \in TasksOf(i) :
        /\ Task(f).hr_name = ClaimedName(recruiters[i])
        /\ Task(f).company_name = ClaimedCompany(recruiters[i])

(* C9: a task whose composing failed, on the template or on reading the
   attachment, ends at once: no transport attempt and no backoff sleep,
   whatever max_retries is. *)
C9_PermanentFailureNoRetry ==
  \A f \in Futures :
    LET t == Task(f) IN
      /\ (template /= "ok" \/ t.outcome = "attach_error") =>
           /\ t.sends = << >>
           /\ t.sleeps = << >>
           /\ t.pc \notin { "send", "backoff", "linger" }
      /\ (template = "KeyError" /\ t.pc = "done") =>
           t.outcome \in { "template_error", "IndexError" }

C9_Witness ==
  \E f, g \in Futures :
    /\ max_retries = 3
    /\ Task(f).pc = "done" /\ Task(f).outcome = "attach_error"
    /\ Task(g).pc = "done" /\ Task(g).outcome = "exhausted"

(* C10: at most max_threads tasks run at the same time, and no more tasks
   are submitted than the batch has records. *)
C10_BoundedConcurrency ==
  /\ Cardinality(RunningTasks) <= max_threads
  /\ Len(futures) <= Len(recruiters)
  /\ Len(futures) <= idx

C10_Witness ==
  /\ max_threads = 1
  /\ \E f, g \in Futures :
       /\ Task(f).pc = "backoff"
       /\ Task(g).pc = "queued"

(* main has ended: by sys.exit, by an uncaught exception or by returning *)
MainEnded == ExitStatus /= -1

(* a fatal startup condition: a check of the constructor fails, or the
   loader yields no record *)
FatalStartup == startup /= "ok" \/ recruiters = << >>

NothingAttempted ==
  /\ grants = << >>
  /\ futures = << >>

(* C11: a run with a fatal startup condition (credentials, attachment or
   template missing, or no input record) ends with a non-zero exit status,
   and no acquire and no transport attempt is ever made in it. *)
C11_FatalStartupExit ==
  FatalStartup =>
    /\ NothingAttempted
    /\ MainEnded => ExitStatus /= 0

(* what does hold of a fatal startup: nothing is attempted, and the failed
   constructor checks end in status 1 *)
C11_FatalStartupNoSend ==
  FatalStartup =>
    /\ NothingAttempted
    /\ (MainEnded /\ startup /= "ok") => ExitStatus = 1

C11_ConstructorFailed == startup /= "ok" /\ mainpc = "exit_1"

C11_EmptyBatchExitsZero == startup = "ok" /\ mainpc = "no_data" /\ ExitStatus = 0

(* positions of a task inside RateLimiter.wait: line 19 has run, line 36
   has not *)
InsideWait == { "w_filter", "w_store", "w_len", "w_first", "w_sleep", "w_now2", "w_append" }

TasksInsideWait == { f \in Futures : Task(f).pc \in InsideWait }

(* C12: acquire is one atomic critical section over the window: prune,
   capacity check, wait and append of one caller are never interleaved with
   those of another, so at any time at most one task is inside wait (and two
   callers never pass the capacity check against the same window state). *)
C12_AcquireAtomic == Cardinality(TasksInsideWait) <= 1

(* task f returns from RateLimiter.wait in this step *)
Acquired(f) == Task(f).pc = "w_append" /\ futures'[f].pc = "compose"

(* C13: immediately after every successful acquire, also one that waited, the
   window holds at most calls_per_period timestamps. *)
C13_WindowLength ==
  [][\A f \in Futures : Acquired(f) => Len(timestamps') <= calls_per_period]_vars

(* the same for a limiter used by one thread at a time *)
C13_WindowLengthOneThread ==
  [][\A f \in Futures :
       (Acquired(f) /\ max_threads = 1) => Len(timestamps') <= calls_per_period]_vars

(* task f enters time.sleep inside RateLimiter.wait in this step *)
Suspends(f) == Task(f).pc = "w_first" /\ futures'[f].pc = "w_sleep"

(* the duration handed to time.sleep by the step that suspends f *)
Suspension(f) == futures'[f].wake - clock

(* a call that passed the capacity check leaves line 25 by sleeping or by
   going on to the append, never by an exception *)
LeavesCheck(f) == Task(f).pc = "w_first" /\ futures'[f].pc /= "w_first"

(* C14: in every interleaving an acquire suspends at most once, for a wait
   period - (now - oldest entry) that is positive and at most period, then
   records a timestamp and returns: it never polls and never fails. *)
C14_SingleBoundedWait ==
  [][\A f \in Futures :
       /\ Suspends(f) => Suspension(f) \in 1..period
       /\ LeavesCheck(f) => futures'[f].pc \in { "w_sleep", "w_now2" }
       /\ (Task(f).pc = "w_sleep" /\ futures'[f].pc /= "w_sleep")
             => futures'[f].pc = "w_now2"
       /\ (Task(f).pc = "w_now2" /\ futures'[f].pc /= "w_now2")
             => futures'[f].pc = "w_append"]_vars

(* the same for a limiter used by one thread at a time *)
C14_SingleBoundedWaitOneThread ==
  [][\A f \in Futures :
       (Suspends(f) /\ max_threads = 1) => Suspension(f) \in 1..period]_vars

(* ---------------- termination ---------------- *)
Sleeping == { "w_sleep", "backoff", "linger" }

(* the clock advances past MaxTime for as long as a thread is inside a
   time.sleep that is not yet due *)
LateTick ==
  /\ clock >= MaxTime
  /\ \E f \in 1..Len(futures) : Task(f).pc \in Sleeping /\ Task(f).wake > clock
  /\ clock' = clock + 1
  /\ UNCHANGED << config, timestamps, mainpc, idx, skipped, futures, collected, grants >>

(* the steps of the thread that runs main and send_emails_concurrently *)
MainStep ==
  \/ Construct
  \/ EnterPool
  \/ LoopStep
  \/ LoopEnd
  \/ Return
  \/ \E f \in 1..Len(futures) : Collect(f)

(* the steps of the worker thread that runs task f *)
TaskStep(f) ==
  /\ f \in 1..Len(futures)
  /\ \/ Start(f)
     \/ WaitNow(f)
     \/ WaitFilter(f)
     \/ WaitStore(f)
     \/ WaitLen(f)
     \/ WaitFirst(f)
     \/ WaitWake(f)
     \/ WaitNow2(f)
     \/ WaitAppend(f)
     \/ Compose(f)
     \/ Send(f)
     \/ BackoffWake(f)
     \/ LingerWake(f)

LiveNext ==
  \/ MainStep
  \/ Tick
  \/ LateTick
  \/ \E f \in 1..Len(futures) : TaskStep(f)

(* every thread that can run is scheduled, time passes, and every transport
   call and every time.sleep returns *)
Fairness ==
  /\ WF_vars(MainStep)
  /\ WF_vars(Tick)
  /\ WF_vars(LateTick)
  /\ \A f \in 1..MaxBatch : WF_vars(TaskStep(f))

(* the records of the runs checked for termination: every record the loop
   rejects, and one it submits a task for *)
LiveRecords ==
  { rec \in Records : Prepared[rec].kind /= "submit" } \cup { PlainRecord }

(* the runs checked for termination: every batch of these records, every
   startup condition and pool size, under the limiter of the reference
   configuration and a template that formats; the largest retry ceiling is
   run with one worker *)
LiveInit ==
  /\ Init
  /\ calls_per_period = 1 /\ period = 2
  /\ limiter_args = << calls_per_period, period >>
  /\ template = "ok"
  /\ max_threads > 1 => max_retries <= 1
  /\ \/ recruiters \in MissingColumnBatches
     \/ \A i \in 1..Len(recruiters) : recruiters[i] \in LiveRecords

LiveSpec == LiveInit /\ [][LiveNext]_vars /\ Fairness

(* the ceiling on the transport attempts of one task: range(max_retries) *)
AttemptCeiling == Max(0, max_retries)

(* main has ended and every submitted task is terminal *)
BatchOver == MainEnded /\ \A f \in Futures : Task(f).pc = "done"

(* C15: every submitted task eventually reaches a terminal state, having made
   at most max_retries transport attempts, and the call of
   send_emails_concurrently that built its pool eventually returns, whatever
   the transport failures and the scheduling of the workers: every run comes
   to an end with all its tasks terminal, and a run that ended otherwise than
   by the return of send_emails_concurrently never entered its record loop. *)
C15_Termination ==
  /\ [](\A f \in Futures : Len(Task(f).sends) <= AttemptCeiling)
  /\ []((MainEnded /\ mainpc /= "returned") => (idx = 0 /\ futures = << >>))
  /\ <>BatchOver

(* a batch with a failed attempt and a sleep that ended after MaxTime has
   been joined *)
C15_Witness ==
  /\ mainpc = "returned"
  /\ clock > MaxTime
  /\ Len(futures) = 2
  /\ \E f \in Futures : Task(f).outcome = "exhausted" /\ Len(Task(f).sends) = 3
  /\ \E f \in Futures : Task(f).outcome = "sent"

(* ---------------- limiter parameters ---------------- *)
(* task f passes the capacity check of line 23 in this step *)
ChecksCapacity(f) == Task(f).pc = "w_len" /\ futures'[f].pc /= "w_len"

(* C16: whatever the constructor arguments, zero and negative ones included,
   calls_per_period and period are at least 1 (the larger of 1 and the
   argument) once the limiter is built, no step of wait changes them, and a
   capacity check that finds the window empty goes on to the append without
   sleeping. *)
C16_ClampedParameters ==
  /\ [](/\ calls_per_period >= 1 /\ period >= 1
        /\ calls_per_period = Max(1, limiter_args[1])
        /\ period = Max(1, limiter_args[2]))
  /\ [][/\ calls_per_period' = calls_per_period
        /\ period' = period
        /\ \A f \in Futures :
             (ChecksCapacity(f) /\ timestamps = << >>)
               => futures'[f].pc = "w_append"]_vars

(* a limiter built from a zero and a negative argument has granted an
   acquire on the empty window at once *)
C16_Witness ==
  /\ limiter_args[1] = 0 /\ limiter_args[2] < 0
  /\ calls_per_period = 1 /\ period = 1
  /\ \E f \in Futures :
       /\ Task(f).pc = "compose"
       /\ timestamps = << clock >>
       /\ grants = << clock >>
       /\ clock > 0

(* ---------------- the retry loop after a success ---------------- *)
Succeeded(f) == Task(f).outcome = "sent"

(* C17: a task stops at its first successful transport attempt: once an
   attempt has succeeded the task makes no further attempt and no backoff
   sleep, so it delivers at most one message; its attempt counter never
   decreases, grows by one per attempt and stays within 0..max_retries. *)
C17_StopAtFirstSuccess ==
  /\ [](\A f \in Futures :
          /\ Task(f).attempt \in 0..AttemptCeiling
          /\ Len(Task(f).sends) \in 0..AttemptCeiling
          /\ Task(f).attempt <= Len(Task(f).sends)
          /\ Succeeded(f) => Task(f).pc \in { "linger", "done" })
  /\ [][\A f \in Futures :
          /\ Succeeded(f) =>
               /\ futures'[f].sends = Task(f).sends
               /\ futures'[f].sleeps = Task(f).sleeps
               /\ futures'[f].outcome = "sent"
          /\ futures'[f].attempt \in { Task(f).attempt, Task(f).attempt + 1 }
          /\ Len(futures'[f].sends) \in { Len(Task(f).sends), Len(Task(f).sends) + 1 }
          /\ futures'[f].attempt /= Task(f).attempt
               => Len(futures'[f].sends) = Len(Task(f).sends)]_vars

(* a task has failed once, backed off and then succeeded with the ceiling
   not yet reached, and another task has returned after its success *)
C17_Witness ==
  /\ max_retries = 3
  /\ \E f \in Futures :
       /\ Task(f).pc = "linger"
       /\ Succeeded(f)
       /\ Len(Task(f).sends) = 2
       /\ Task(f).attempt = 1
  /\ \E f \in Futures :
       /\ Task(f).pc = "done"
       /\ Succeeded(f)

(* ---------------- the window keeps its grants ---------------- *)
Count(seq, v) == Cardinality({ i \in 1..Len(seq) : seq[i] = v })

(* the grants not yet older than period *)
LiveGrants == { i \in 1..Len(grants) : grants[i] > clock - period }

(* C18: no granted timestamp is lost: under any interleaving, a timestamp
   recorded by a grant is in the window for as long as it is not older than
   period; only a prune that finds it at or before now - period removes it. *)
C18_NoGrantLost ==
  \A i \in LiveGrants : Count(timestamps, grants[i]) >= Count(grants, grants[i])

(* the same for a limiter used by one thread at a time *)
C18_NoGrantLostOneThread == max_threads = 1 => C18_NoGrantLost

====
